---- MODULE Spec2Model ----
(***************************************************************************)
(* Model of the ai-service resilience wrapper (circuit breaker + bounded   *)
(* retry, services/openai_service.py) and of the search-service cache and  *)
(* result assembly (services/search_service.py, models/search_model.py).   *)
(*                                                                         *)
(* The two services are separate processes with separate state, so each    *)
(* has its own specification: SpecAI and SpecSearch. The search service    *)
(* runs its operations on the threads of a pool and takes no lock, so in   *)
(* every specification of it the operations are sequences of steps that    *)
(* interleave: SpecSearch has searches and index writes with the clock     *)
(* advancing, SpecThreads the same at one instant, SpecRequests the        *)
(* requests to the service (searches, suggestions), SpecCluster the        *)
(* service against a cluster whose health and index change under it, and   *)
(* SpecQuery the query builder and the SearchQuery constructor applied to  *)
(* inputs.                                                                 *)
(***************************************************************************)
EXTENDS Integers, Sequences, FiniteSets, TLC

Max(a, b) == IF a >= b THEN a ELSE b
Min(a, b) == IF a <= b THEN a ELSE b

(***************************************************************************)
(* Bounds of the model.                                                    *)
(***************************************************************************)
\* time.time() when the OpenAIService is constructed (seconds, > reset_timeout
\* because the clock is the Unix epoch clock and _last_failure_time starts at 0)
AiStartTime == 100
\* the AI clock is explored for this many seconds after construction
AiHorizon == 85
\* the ghost count of consecutive failed backend calls saturates here
MaxStreak == 6
\* at most this many coroutines are suspended at their backend call at a time
MaxPending == 2

\* the steps by which the AI clock advances between calls
AiDeltas == {30, 61}

\* the search clock advances at most this many times
MaxTicks == 2
\* the steps by which the search clock advances between operations
SearchDeltas == {299, 300, 86400}
\* relevance scores are written in units of 1/ScoreScale (1.0 is ScoreScale)
ScoreScale == 10
\* the request threads handle at most this many requests between them
MaxRequests == 3

(***************************************************************************)
(* Program constants of the resilience wrapper.                            *)
(***************************************************************************)
failure_threshold == 5
reset_timeout == 60
\* @retry(stop=stop_after_attempt(3), wait=wait_exponential(multiplier=1, min=4, max=10))
RetryMaxAttempts == 3
WaitMultiplier == 1
WaitMin == 4
WaitMax == 10

VARIABLES
    aiNow,            \* time.time() of the ai-service process, whole seconds
    breaker,          \* CircuitBreaker: [failures, last_failure_time]
    aiLast,           \* what the last logical call did (attempt log, outcome)
    aiFlip,           \* toggles at every logical call
    streak,           \* ghost: consecutive failed backend calls, each within
                      \* reset_timeout of the one before
    streakTime,       \* ghost: time of the latest failed backend call
    aiPending,        \* the coroutines suspended at their backend call
    clock,            \* datetime.now() of the search-service process, whole seconds
    ticks,            \* how often the search clock has advanced
    cache,            \* SearchService._cache: key -> None or [result, timestamp]
    sLast,            \* what the search-service operation that returned last did
    sFlip,            \* toggles whenever a search-service operation returns
    health,           \* the status the cluster reports to cluster.health()
    index,            \* the detections index in the cluster: absent, or its schema
    qbLast,           \* what the last call of the query builder or of the
                      \* SearchQuery constructor was given and gave
    th,               \* the threads of the gRPC pool: where each one is in the
                      \* operation it runs, and its local variables
    ghost             \* ghost: requests taken, index writes saved and completed
                      \* so far, and for each cache entry which search stored it

aiVars == <<aiNow, breaker, aiLast, aiFlip, streak, streakTime, aiPending>>

clusterVars == <<health, index>>

thVars == <<th, ghost>>

searchVars == <<clock, ticks, cache, sLast, sFlip, health, index, qbLast, th, ghost>>

vars == <<aiNow, breaker, aiLast, aiFlip, streak, streakTime, aiPending,
          clock, ticks, cache, sLast, sFlip, health, index, qbLast, th, ghost>>

(***************************************************************************)
(* CircuitBreaker (openai_service.py:60-79).                               *)
(***************************************************************************)
\* CircuitBreaker.__init__
CircuitBreakerInit == [failures |-> 0, last_failure_time |-> 0]

\* is_open with the threshold compared strictly
is_open_strict_threshold(cb, t) ==
    IF t - cb.last_failure_time > reset_timeout
    THEN FALSE
    ELSE cb.failures > failure_threshold

\* is_open that already closes at exactly reset_timeout seconds
is_open_early_reset(cb, t) ==
    IF t - cb.last_failure_time >= reset_timeout
    THEN FALSE
    ELSE cb.failures >= failure_threshold

\* the value the is_open property returns at time t
is_open(cb, t) ==
    IF t - cb.last_failure_time > reset_timeout
    THEN FALSE
    ELSE cb.failures >= failure_threshold

\* the side effect of reading the is_open property at time t
is_open_effect(cb, t) ==
    IF t - cb.last_failure_time > reset_timeout
    THEN [cb EXCEPT !.failures = 0]
    ELSE cb

\* CircuitBreaker.record_failure at time t
record_failure(cb, t) ==
    [failures |-> cb.failures + 1, last_failure_time |-> t]

(***************************************************************************)
(* What one invocation of the wrapped operation does. The three decorated  *)
(* operations are coroutine functions (async def, lines 135, 225, 301):    *)
(* the call inside the wrapper raises only when the arguments do not bind  *)
(* ("bind", a TypeError); otherwise it returns a coroutine object, and the *)
(* body runs, and may raise, when the caller awaits it.                    *)
(* Body outcomes: "validation" (ValueError raised before the backend is    *)
(* reached, lines 158-164); "transient" (the backend call times out or the *)
(* connection fails); "unusable" (the backend answered and the body raises *)
(* on the answer: quality below the threshold, lines 181-182, an answer    *)
(* without quality_metrics, or an answer that cannot be awaited because    *)
(* the backend method is a plain def, line 173); "ok".                     *)
(* The backend method is either awaitable (the body is suspended at line   *)
(* 173 until the answer is there) or a plain def, as                       *)
(* DetectionModel.generate_detection is (detection_model.py:155): then the *)
(* backend call runs inside the body without suspension, and what it       *)
(* returns cannot be awaited.                                              *)
(***************************************************************************)
BodyOutcomes == {"ok", "validation", "transient", "unusable"}
\* the outcomes of a body that has reached its backend call
BackendAnswers == BodyOutcomes \ {"validation"}
\* the outcomes of a body whose backend method is a plain def
PlainAnswers == {"transient", "unusable"}
\* the backend call itself succeeded
BackendOk(o) == o \in {"ok", "unusable"}

\* the logical calls explored: what each invocation does inside the wrapper,
\* and how far the body gets when the returned coroutine is awaited
\* ("validation": it raises before the backend call; "backend": it reaches
\* the call of an awaitable backend; "plain_backend": it reaches the call of
\* a backend method that is a plain def)
CallInputs ==
    { [kind |-> "coroutine", calls |-> [i \in 1..RetryMaxAttempts |-> "bind"],
       body |-> "na"] }
    \cup
    { [kind |-> "coroutine", calls |-> [i \in 1..RetryMaxAttempts |-> "ok"],
       body |-> b] : b \in {"validation", "backend", "plain_backend"} }

\* a wrapper whose rejection is raised inside the try block, and so recorded
\* as a failure by the except clause
circuit_breaker_counts_rejections(cb, t, c) ==
    IF is_open(cb, t)
    THEN [cb |-> record_failure(is_open_effect(cb, t), t), rejected |-> TRUE,
          invoked |-> FALSE, raised |-> "unavailable"]
    ELSE IF c # "ok"
    THEN [cb |-> record_failure(is_open_effect(cb, t), t), rejected |-> FALSE,
          invoked |-> TRUE, raised |-> c]
    ELSE [cb |-> is_open_effect(cb, t), rejected |-> FALSE, invoked |-> TRUE,
          raised |-> "none"]

\* the decorator circuit_breaker: one invocation of its wrapper at time t, when
\* the wrapped call does c ("ok" = returns without raising)
circuit_breaker(cb, t, c) ==
    IF is_open(cb, t)
    THEN [cb |-> is_open_effect(cb, t), rejected |-> TRUE, invoked |-> FALSE,
          raised |-> "unavailable"]
    ELSE IF c # "ok"
    THEN [cb |-> record_failure(is_open_effect(cb, t), t), rejected |-> FALSE,
          invoked |-> TRUE, raised |-> c]
    ELSE [cb |-> is_open_effect(cb, t), rejected |-> FALSE, invoked |-> TRUE,
          raised |-> "none"]

(***************************************************************************)
(* tenacity: @retry(stop=stop_after_attempt(3),                            *)
(*                  wait=wait_exponential(multiplier=1, min=4, max=10))    *)
(***************************************************************************)
RECURSIVE Pow2(_)
Pow2(n) == IF n <= 0 THEN 1 ELSE 2 * Pow2(n - 1)

\* stop_after_attempt that allows one attempt more
stop_after_attempt_off_by_one(n) == n > RetryMaxAttempts

\* stop_after_attempt(3): stop once the attempt number has reached the maximum
stop_after_attempt(n) == n >= RetryMaxAttempts

\* wait_exponential: max(min, min(multiplier * 2^(attempt-1), max))
wait_exponential(n) == Max(WaitMin, Min(WaitMultiplier * Pow2(n - 1), WaitMax))

\* the decorator is given no retry= argument: tenacity's default retries on
\* every Exception, whatever its type
retry_if(raised) == raised # "none"

\* Retrying.__call__: attempt n of the wrapper at time t; returns the breaker,
\* the clock, the attempt log and how the call ended (an invocation beyond
\* the scripted ones behaves like the last scripted one)
RECURSIVE retry(_, _, _, _, _)
retry(n, cb, t, calls, log) ==
    LET a == circuit_breaker(cb, t, calls[Min(n, Len(calls))])
        log1 == Append(log,
                  [at |-> t, elapsed |-> Min(t - cb.last_failure_time, reset_timeout + 1),
                   failures |-> cb.failures, after |-> a.cb.failures,
                   stamped |-> a.cb.last_failure_time # cb.last_failure_time,
                   rejected |-> a.rejected, invoked |-> a.invoked, raised |-> a.raised])
    IN  IF ~retry_if(a.raised)
        THEN [cb |-> a.cb, t |-> t, log |-> log1, result |-> "returned"]
        ELSE IF stop_after_attempt(n)
        THEN [cb |-> a.cb, t |-> t, log |-> log1, result |-> "RetryError"]
        ELSE retry(n + 1, a.cb, t + wait_exponential(n), calls, log1)

(***************************************************************************)
(* Ghost bookkeeping: the run of consecutive failed backend calls.         *)
(***************************************************************************)
RECURSIVE StreakAfter(_, _, _)
StreakAfter(s, events, i) ==
    IF i > Len(events) THEN s
    ELSE LET e == events[i]
             s1 == IF e.ok THEN [n |-> 0, at |-> s.at]
                   ELSE IF s.n > 0 /\ e.at - s.at <= reset_timeout
                        THEN [n |-> Min(s.n + 1, MaxStreak), at |-> e.at]
                        ELSE [n |-> 1, at |-> e.at]
         IN  StreakAfter(s1, events, i + 1)

(***************************************************************************)
(* The ai-service state machine. The service methods are coroutines run on *)
(* one event loop: the wrapper (retry around circuit_breaker) is plain     *)
(* synchronous code, its waits between attempts block the loop, and it     *)
(* hands back a coroutine; the body runs on to its backend call, line 173, *)
(* where it is suspended until the backend answers, and other requests run *)
(* in the meantime.                                                        *)
(***************************************************************************)
AiNoCall == [kind |-> "none", log |-> <<>>, result |-> "none", awaited |-> "na",
             backendCalls |-> 0]

AiInit ==
    /\ aiNow = AiStartTime
    /\ breaker = CircuitBreakerInit
    /\ aiLast = AiNoCall
    /\ aiFlip = FALSE
    /\ streak = 0
    /\ streakTime = 0
    /\ aiPending = 0

\* time passes between the steps of the requests
AiTick ==
    \E d \in AiDeltas :
        /\ aiNow + d <= AiStartTime + AiHorizon
        /\ aiNow' = aiNow + d
        /\ UNCHANGED <<breaker, aiLast, aiFlip, streak, streakTime, aiPending>>
        /\ UNCHANGED searchVars

\* a request calls a retry- and circuit_breaker-decorated operation
\* (generate_detection_content and its siblings) and awaits what it returns:
\* the wrapper runs, and the body up to the point where it raises on its
\* arguments, is suspended at the call of an awaitable backend, or raises
\* after the call of a plain-def backend
AiCall ==
    \E in \in CallInputs, o \in PlainAnswers :
    \E r \in {retry(1, breaker, aiNow, in.calls, <<>>)} :
    \E suspended \in {r.result = "returned" /\ in.body = "backend"} :
    \E plain \in {r.result = "returned" /\ in.body = "plain_backend"} :
    \E s \in {IF plain
              THEN StreakAfter([n |-> streak, at |-> streakTime],
                               <<[at |-> r.t, ok |-> BackendOk(o)]>>, 1)
              ELSE [n |-> streak, at |-> streakTime]} :
        /\ r.t <= AiStartTime + AiHorizon
        /\ suspended => aiPending < MaxPending
        /\ aiNow' = r.t
        /\ breaker' = r.cb
        /\ aiLast' = [kind |-> in.kind, result |-> r.result,
                      log |-> [i \in 1..Len(r.log) |->
                                 [r.log[i] EXCEPT !.at = r.log[i].at - aiNow]],
                      awaited |-> IF r.result # "returned" THEN "na"
                                  ELSE IF suspended THEN "pending"
                                  ELSE IF plain THEN o ELSE "validation",
                      backendCalls |-> IF suspended \/ plain THEN 1 ELSE 0]
        /\ aiFlip' = ~aiFlip
        /\ aiPending' = IF suspended THEN aiPending + 1 ELSE aiPending
        /\ streak' = s.n
        /\ streakTime' = s.at
        /\ UNCHANGED searchVars

\* the backend call of a suspended coroutine ends and the body runs to its
\* end, lines 173-204: it returns the answer or raises to the awaiting caller
AiAnswer ==
    \E o \in BackendAnswers :
    \E s \in {StreakAfter([n |-> streak, at |-> streakTime],
                           <<[at |-> aiNow, ok |-> BackendOk(o)]>>, 1)} :
        /\ aiPending > 0
        /\ aiPending' = aiPending - 1
        /\ aiLast' = [kind |-> "answer", result |-> "returned", log |-> <<>>,
                      awaited |-> o, backendCalls |-> 1]
        /\ aiFlip' = ~aiFlip
        /\ streak' = s.n
        /\ streakTime' = s.at
        /\ UNCHANGED <<aiNow, breaker>>
        /\ UNCHANGED searchVars

NextAI == AiTick \/ AiCall \/ AiAnswer

(***************************************************************************)
(* search-service: SearchService (services/search_service.py).             *)
(***************************************************************************)
CACHE_TTL == 300

\* Python's None, where a string or a list may stand
None == "None"
\* Python's None, where a mapping or an object may stand
Nothing == [none |-> TRUE]
\* an exception raised instead of a value
Raise(exc) == [exc |-> exc]
Raised(v) == "exc" \in DOMAIN v

\* The query objects handed to search, with the fields of SearchQuery that
\* make up query.dict() (sort_options, always None here, is left out);
\* has_paging says whether the
\* object carries the attributes page_number and page_size that
\* build_search_query reads (SearchQuery declares from_ and size instead, so a
\* plain SearchQuery does not: pydantic drops the unknown keywords).
Queries ==
    [query_text : {"ransomware detection", "lateral movement"},
     platforms : {Nothing}, tags : {Nothing}, min_quality_score : {Nothing},
     from_ : {0}, size : {20},
     has_paging : {TRUE}]
    \cup
    [query_text : {"ransomware detection"},
     platforms : {Nothing}, tags : {Nothing}, min_quality_score : {Nothing},
     from_ : {0}, size : {20},
     has_paging : {FALSE}]

\* str(query.dict()): the fields of the object, in declaration order, lists in
\* the order given (page_number and page_size are among them when the object
\* has them)
DictStr(q) ==
    <<q.query_text, q.platforms, q.tags, q.min_quality_score, q.from_, q.size,
      q.has_paging>>

\* SearchService._generate_cache_key: f"search:{hash(str(query.dict()))}"
\* (equal strings hash equally; different strings are taken to hash differently)
_generate_cache_key(q) == <<"search", DictStr(q)>>

CacheKeys == {_generate_cache_key(q) : q \in Queries}

\* timedelta.seconds: the seconds component of a normalised timedelta
\* (days, seconds, microseconds), 0 <= seconds < 86400; the days are not in it
TimedeltaSeconds(d) == d % 86400

\* dict.get(key): the value under the key, None when the dict has no such key
dict_get(c, key) == IF key \in DOMAIN c THEN c[key] ELSE Nothing

\* _get_from_cache with the TTL comparison the wrong way round
_get_from_cache_reversed(c, key, now) ==
    IF dict_get(c, key) # Nothing /\ TimedeltaSeconds(now - c[key].timestamp) > CACHE_TTL
    THEN c[key].result
    ELSE Nothing

\* SearchService._get_from_cache at time now
_get_from_cache(c, key, now) ==
    IF dict_get(c, key) # Nothing /\ TimedeltaSeconds(now - c[key].timestamp) < CACHE_TTL
    THEN c[key].result
    ELSE Nothing

\* _add_to_cache that rebinds the cache to a dict holding the new entry only
_add_to_cache_replaces_dict(c, key, result, now) ==
    [k \in DOMAIN c |->
        IF k = key THEN [result |-> result, timestamp |-> now] ELSE Nothing]

\* SearchService._add_to_cache at time now
_add_to_cache(c, key, result, now) ==
    [k \in DOMAIN c \cup {key} |->
        IF k = key THEN [result |-> result, timestamp |-> now] ELSE c[k]]

\* _clear_related_caches that clears only the entries of the slow searches
_clear_related_caches_slow_only(c) ==
    [k \in DOMAIN c |->
        IF c[k] # Nothing /\ c[k].result.took_ms <= 1 THEN c[k] ELSE Nothing]

\* _clear_related_caches that clears nothing
_clear_related_caches_noop(c) == c

\* SearchService._clear_related_caches: self._cache.clear()
_clear_related_caches(c) == [k \in DOMAIN c |-> Nothing]

(***************************************************************************)
(* What the backend answers to one executed search.                        *)
(***************************************************************************)
\* hit.meta.score of the hits of a response, best first
HitScores == {<<>>, <<ScoreScale \div 2>>, <<2 * ScoreScale + 5, 0 - 5>>}

\* response.took, in milliseconds
Tooks == {1, 2}

BackendResponses ==
    [kind : {"ok"}, scores : HitScores, took : {1}, shards : {"present"}]
    \cup
    [kind : {"ok"}, scores : {<<>>}, took : Tooks, shards : {"present"}]
    \cup
    [kind : {"ok"}, scores : {<<>>, <<ScoreScale \div 2>>}, took : {1},
     shards : {"missing"}]
    \cup
    [kind : {"ConnectionTimeout", "RequestError", "Exception"},
     scores : {<<>>}, took : {1}, shards : {"missing"}]

\* build_search_query(query): reads search_params.page_number and
\* search_params.page_size (query_builder.py:63-66)
build_search_query(q) ==
    IF q.has_paging THEN "Search" ELSE "AttributeError"

\* the pagination build_search_query adds (query_builder.py:62-66): the
\* keywords given to search.extra, or the AttributeError of reading
\* page_number from an object that has no such attribute
search_pagination(q) ==
    IF q.has_paging
    THEN [from_ |-> (q.page_number - 1) * q.page_size, size |-> q.page_size]
    ELSE Raise("AttributeError")

\* SearchHit.normalize_score: max(0.0, min(1.0, v))
normalize_score(v) == Max(0, Min(ScoreScale, v))

\* search, line 115, for one hit:
\* DetectionDocument.from_detection(hit.to_dict()).to_search_hit().
\* DetectionDocument (search_model.py:140-215) defines no to_search_hit, so
\* the attribute lookup raises AttributeError before line 116 can assign
\* hit.meta.score
process_hit(i, meta_score) == Raise("AttributeError")

\* search, lines 113-118: the loop ends at the first hit that raises; without
\* hits the list stays empty
process_hits(scores) ==
    IF scores = <<>> THEN <<>> ELSE process_hit(1, scores[1])

\* response.hits.max_score or 0.0
max_score(scores) == IF scores = <<>> THEN 0 ELSE scores[1]

\* performance_metrics that reads the shard counts with a default
performance_metrics_tolerant(resp) ==
    [query_time_ms |-> resp.took, total_shards |-> resp.shards,
     successful_shards |-> resp.shards]

\* search, lines 127-131: the performance_metrics dict; reading
\* response._shards.total of a response without shard telemetry raises
\* AttributeError
performance_metrics(resp) ==
    IF resp.shards = "missing"
    THEN Raise("AttributeError")
    ELSE [query_time_ms |-> resp.took, total_shards |-> resp.shards,
          successful_shards |-> resp.shards]

\* SearchResult.validate_performance: the three required keys are present
validate_performance(v) ==
    {"query_time_ms", "total_shards", "successful_shards"} \subseteq DOMAIN v

\* search, lines 112-132: the SearchResult built from a response, or the
\* exception raised while building it
build_result(resp) ==
    LET hits == process_hits(resp.scores)
        pm == performance_metrics(resp)
    IN  IF Raised(hits) THEN hits
        ELSE IF Raised(pm) THEN pm
        ELSE IF max_score(resp.scores) < 0 \/ ~validate_performance(pm)
        THEN Raise("ValidationError")
        ELSE [hits |-> hits, took_ms |-> resp.took,
              max_score |-> max_score(resp.scores), performance_metrics |-> pm]

\* the exception classes the operations can raise inside error_handler; all
\* are subclasses of Exception
Exceptions ==
    {"ConnectionTimeout", "RequestError", "Exception", "AttributeError",
     "ValidationError", "TypeError", "KeyError"}

\* error_handler whose RequestError clause re-raises what it caught
error_handler_raises_leaky(exc) ==
    IF exc = "ConnectionTimeout" THEN "SearchServiceError"
    ELSE IF exc = "RequestError" THEN exc
    ELSE IF exc \in Exceptions THEN "SearchServiceError"
    ELSE exc

\* error_handler: the class of what the wrapper raises when the wrapped
\* function raised exc (the three except clauses, in order; what is no
\* Exception passes through)
error_handler_raises(exc) ==
    IF exc = "ConnectionTimeout" THEN "SearchServiceError"
    ELSE IF exc = "RequestError" THEN "SearchServiceError"
    ELSE IF exc \in Exceptions THEN "SearchServiceError"
    ELSE exc

\* error_handler: the SearchServiceError message for an exception
error_handler(exc) ==
    IF exc = "ConnectionTimeout" THEN "Search request timed out"
    ELSE IF exc = "RequestError" THEN "Invalid search request"
    ELSE "Internal search service error"

\* search, lines 101-109, at time now against cache c: the lookup, and on a
\* miss the query that build_search_query builds or the exception it raises
search_lookup(c, q, now) ==
    LET key == _generate_cache_key(q)
        cached_result == _get_from_cache(c, key, now)
    IN  [cached_result |-> cached_result,
         hit |-> cached_result # Nothing,
         age |-> IF dict_get(c, key) = Nothing THEN 0 - 1 ELSE now - c[key].timestamp,
         raised |-> IF cached_result = Nothing
                       /\ build_search_query(q) = "AttributeError"
                    THEN "AttributeError" ELSE None]

\* a search that caches the response as soon as the backend has answered,
\* before the SearchResult is built and validated
search_execute_caches_first(c, key, now, resp) ==
    [cache |-> IF resp.kind = "ok" THEN _add_to_cache(c, key, Nothing, now) ELSE c,
     built |-> IF resp.kind # "ok" THEN Raise(resp.kind) ELSE build_result(resp)]

\* search, lines 110-132, the backend answering resp: the exception of the
\* backend call, or what the result assembly gives; the cache is not touched
search_execute(c, key, now, resp) ==
    [cache |-> c,
     built |-> IF resp.kind # "ok" THEN Raise(resp.kind) ELSE build_result(resp)]

\* index_detection that clears the cache before it saves the document
index_detection_save_clears_first(c, data_ok, save_ok) ==
    [cache |-> IF data_ok THEN _clear_related_caches(c) ELSE c,
     saved |-> data_ok /\ save_ok, saves |-> IF data_ok THEN 1 ELSE 0]

\* index_detection, lines 221-229: from_detection raises KeyError when a
\* required key is missing, doc.save may raise; the cache is not touched
index_detection_save(c, data_ok, save_ok) ==
    [cache |-> c, saved |-> data_ok /\ save_ok, saves |-> IF data_ok THEN 1 ELSE 0]

Cached(c) == {k \in DOMAIN c : c[k] # Nothing}

(***************************************************************************)
(* Python values the models below need.                                    *)
(***************************************************************************)
\* an Optional that is not None
Some(v) == [some |-> v]

\* bool(x) of an Optional[List]: None and the empty list are false
TruthyList(o) == o # Nothing /\ o.some # <<>>
\* bool(x) of an Optional[float]: None and 0.0 are false
TruthyNumber(o) == o # Nothing /\ o.some # 0

\* s * n
RECURSIVE Repeat(_, _)
Repeat(s, n) ==
    IF n <= 0 THEN ""
    ELSE IF n % 2 = 0 THEN LET h == Repeat(s, n \div 2) IN h \o h
    ELSE s \o Repeat(s, n - 1)

\* The strings of the model are over the characters up to U+00FF, and the
\* character classes below are Python's on all of these.
\* The whitespace characters: space, tab, line feed, carriage return, form
\* feed, and (as the characters themselves) U+000B, U+001C to U+001F, U+0085
\* and U+00A0
Whitespace ==
    {" ", "\t", "\n", "\r", "\f"}
    \cup {"", "", "", "", "", "", " "}

\* str.isspace() of one character
IsSpace(ch) == ch \in Whitespace

\* str.split() without arguments, from position i on: the maximal runs of
\* non-whitespace characters, in order (cur is the run being read)
RECURSIVE split_from(_, _, _, _)
split_from(s, i, cur, acc) ==
    IF i > Len(s)
    THEN IF cur = "" THEN acc ELSE Append(acc, cur)
    ELSE LET ch == SubSeq(s, i, i) IN
         IF IsSpace(ch)
         THEN split_from(s, i + 1, "", IF cur = "" THEN acc ELSE Append(acc, cur))
         ELSE split_from(s, i + 1, cur \o ch, acc)

split(s) == split_from(s, 1, "", <<>>)

\* str.lower() of one character
lower_char(ch) ==
    LET upper == "ABCDEFGHIJKLMNOPQRSTUVWXYZÀÁÂÃÄÅÆÇÈÉÊËÌÍÎÏÐÑÒÓÔÕÖØÙÚÛÜÝÞ"
        lowercase == "abcdefghijklmnopqrstuvwxyzàáâãäåæçèéêëìíîïðñòóôõöøùúûüýþ"
        at == {i \in 1..Len(upper) : SubSeq(upper, i, i) = ch}
    IN  IF at = {} THEN ch
        ELSE LET i == CHOOSE j \in at : TRUE IN SubSeq(lowercase, i, i)

\* str.lower()
RECURSIVE lower(_)
lower(s) == IF s = "" THEN "" ELSE lower_char(Head(s)) \o lower(Tail(s))

\* sub in s, for strings
contains(s, sub) ==
    \E i \in 1..(Len(s) - Len(sub) + 1) : SubSeq(s, i, i + Len(sub) - 1) = sub

(***************************************************************************)
(* utils/query_builder.py                                                  *)
(***************************************************************************)
\* build_text_query with the token threshold off by one
build_text_query_strict(query_text) ==
    [query |-> query_text,
     type |-> IF Len(split(query_text)) < 3 THEN "best_fields" ELSE "most_fields",
     fields |-> <<"name^2.0", "description^1.5", "content^1.0", "tags^1.0">>,
     minimum_should_match |-> "2"]

\* build_text_query: the MultiMatch inside the function_score query
build_text_query(query_text) ==
    [query |-> query_text,
     type |-> IF Len(split(query_text)) <= 3 THEN "best_fields" ELSE "most_fields",
     fields |-> <<"name^2.0", "description^1.5", "content^1.0", "tags^1.0">>,
     minimum_should_match |-> "2"]

\* build_filter_context: the list of filter clauses
build_filter_context(platforms, tags, min_quality_score) ==
    (IF TruthyList(platforms)
     THEN <<[clause |-> "Terms", name |-> "platform_filter",
             field |-> "platform_type", value |-> platforms.some]>>
     ELSE <<>>)
    \o
    (IF TruthyList(tags)
     THEN <<[clause |-> "Terms", name |-> "tags_filter",
             field |-> "tags", value |-> tags.some]>>
     ELSE <<>>)
    \o
    (IF min_quality_score # Nothing
     THEN <<[clause |-> "Range", name |-> "quality_filter",
             field |-> "quality_score", value |-> [gte |-> min_quality_score.some]]>>
     ELSE <<>>)

\* build_search_query, lines 45-52: the filter clauses the built query carries
\* (none when any([platforms, tags, min_quality_score]) is false)
search_filter(platforms, tags, min_quality_score) ==
    IF TruthyList(platforms) \/ TruthyList(tags) \/ TruthyNumber(min_quality_score)
    THEN build_filter_context(platforms, tags, min_quality_score)
    ELSE <<>>

(***************************************************************************)
(* models/search_model.py: validation in the SearchQuery constructor.      *)
(***************************************************************************)
MIN_QUERY_LENGTH == 3
MAX_QUERY_LENGTH == 500
MAX_PAGE_SIZE == 100
MIN_QUALITY_SCORE == 0
\* 1.0, in units of 1/ScoreScale
MAX_QUALITY_SCORE == ScoreScale

\* the characters c with c.isalnum(): the ASCII letters and digits, and the
\* letters and numeric characters of U+0080 to U+00FF
AlnumChars ==
    "abcdefghijklmnopqrstuvwxyzABCDEFGHIJKLMNOPQRSTUVWXYZ0123456789"
    \o "ª²³µ¹º¼½¾ÀÁÂÃÄÅÆÇÈÉÊËÌÍÎÏÐÑÒÓÔÕÖØÙÚÛÜÝÞßàáâãäåæçèéêëìíîïðñòóôõöøùúûüýþÿ"

\* str.isalnum() of one character
Alnum == {SubSeq(AlnumChars, i, i) : i \in 1..Len(AlnumChars)}

\* the constr(min_length, max_length) constraint of query_text
query_text_ok(v) == Len(v) >= MIN_QUERY_LENGTH /\ Len(v) <= MAX_QUERY_LENGTH

\* SearchQuery.validate_platforms: set(v) - valid_platforms is empty
validate_platforms(v) ==
    TruthyList(v) => \A i \in 1..Len(v.some) : v.some[i] \in {"SIEM", "EDR", "NSM"}

\* SearchQuery.validate_tags, one tag: it is alphanumeric or all its other
\* characters are among "-_", and it has at most 50 characters
validate_tag(tag) ==
    /\ \/ (tag # "" /\ \A i \in 1..Len(tag) : SubSeq(tag, i, i) \in Alnum)
       \/ \A i \in 1..Len(tag) :
             SubSeq(tag, i, i) \notin Alnum => SubSeq(tag, i, i) \in {"-", "_"}
    /\ Len(tag) <= 50

validate_tags(v) ==
    TruthyList(v) => \A i \in 1..Len(v.some) : validate_tag(v.some[i])

\* the ge/le constraints of min_quality_score (None is not constrained)
min_quality_score_ok(v) ==
    v # Nothing => (v.some >= MIN_QUALITY_SCORE /\ v.some <= MAX_QUALITY_SCORE)

\* the ge constraint of from_ without its comparison
from_ok_unchecked(v) == TRUE

\* the ge constraint of from_
from_ok(v) == v >= 0

\* the ge/le constraints of size
size_ok(v) == v >= 1 /\ v <= MAX_PAGE_SIZE

\* SearchQuery constructed from keywords kw: the validated object, or
\* pydantic's ValidationError.
\* Keywords that are no fields of the model (page_number, page_size) are
\* dropped, so the object never has them.
SearchQuery(kw) ==
    IF /\ query_text_ok(kw.query_text)
       /\ validate_platforms(kw.platforms)
       /\ validate_tags(kw.tags)
       /\ min_quality_score_ok(kw.min_quality_score)
       /\ from_ok(kw.from_)
       /\ size_ok(kw.size)
    THEN [query_text |-> kw.query_text, platforms |-> kw.platforms,
          tags |-> kw.tags, min_quality_score |-> kw.min_quality_score,
          from_ |-> kw.from_, size |-> kw.size, has_paging |-> FALSE]
    ELSE Raise("ValidationError")

(***************************************************************************)
(* SearchService.get_suggestions and refresh_index, and                    *)
(* ElasticsearchSettings.validate_connection.                              *)
(***************************************************************************)
\* the cap of the completion size (search_service.py:160)
SUGGEST_MAX == 20

\* the texts of n completion options for a prefix, ranked
Completions(prefix, n) == [i \in 1..n |-> prefix \o Repeat("x", i)]

\* what self._client.search gives get_suggestions (lines 170-174): an
\* exception, a response without the suggest key, or a response with n
\* options. The number of options is the backend's: nothing in the service
\* ties it to the size that was asked for
SuggestResponses(prefix, counts) ==
    {Raise(exc) : exc \in {"ConnectionTimeout", "RequestError", "KeyError"}}
    \cup {[options |-> Completions(prefix, n)] : n \in counts}

\* get_suggestions that turns away the empty prefix only
get_suggestions_empty_only(prefix, limit, response) ==
    IF prefix = ""
    THEN [returned |-> <<>>, raised |-> None, raisedType |-> None,
          backendCalls |-> 0, asked |-> Nothing]
    ELSE IF limit = Nothing
    THEN [returned |-> <<>>, raised |-> error_handler("TypeError"),
          raisedType |-> error_handler_raises("TypeError"),
          backendCalls |-> 0, asked |-> Nothing]
    ELSE LET size == Min(limit.some, SUGGEST_MAX)
         IN  IF Raised(response)
             THEN [returned |-> <<>>, raised |-> error_handler(response.exc),
                   raisedType |-> error_handler_raises(response.exc),
                   backendCalls |-> 1, asked |-> Some(size)]
             ELSE [returned |-> response.options, raised |-> None, raisedType |-> None,
                   backendCalls |-> 1, asked |-> Some(size)]

\* SearchService.get_suggestions(prefix, limit), the backend call giving
\* response: the short prefix returns [] (lines 151-152), min(None, 20) raises
\* TypeError while the query is built (line 160), the call asks for
\* min(limit, 20) completions (lines 170-174), and every option of the
\* response is copied into the list returned (lines 176-180)
get_suggestions(prefix, limit, response) ==
    IF prefix = "" \/ Len(prefix) < 2
    THEN [returned |-> <<>>, raised |-> None, raisedType |-> None,
          backendCalls |-> 0, asked |-> Nothing]
    ELSE IF limit = Nothing
    THEN [returned |-> <<>>, raised |-> error_handler("TypeError"),
          raisedType |-> error_handler_raises("TypeError"),
          backendCalls |-> 0, asked |-> Nothing]
    ELSE LET size == Min(limit.some, SUGGEST_MAX)
         IN  IF Raised(response)
             THEN [returned |-> <<>>, raised |-> error_handler(response.exc),
                   raisedType |-> error_handler_raises(response.exc),
                   backendCalls |-> 1, asked |-> Some(size)]
             ELSE [returned |-> response.options, raised |-> None, raisedType |-> None,
                   backendCalls |-> 1, asked |-> Some(size)]

\* the statuses cluster.health() reports
HealthStates == {"green", "yellow", "red"}

\* refresh_index that refreshes whatever the health
health_allows_refresh_unguarded(status) == TRUE

\* refresh_index, lines 194-196: a status of red ends the call with False
health_allows_refresh(status) == status # "red"

\* ElasticsearchSettings.get_index_settings: what an index is created with
get_index_settings ==
    [number_of_shards |-> "number_of_shards", analyzer |-> "detection_analyzer"]

\* the schema of an index that was not created by validate_connection
ForeignSchema == [number_of_shards |-> "other", analyzer |-> "standard"]

\* the index in the cluster: absent (Nothing) or its schema
IndexStates == {Nothing, get_index_settings, ForeignSchema}

\* validate_connection that creates the index without asking whether it exists
needs_create_always(exists) == TRUE

\* validate_connection, elasticsearch.py:201: if not index.exists()
needs_create(exists) == ~exists

(***************************************************************************)
(* The search-service state machine. main.py serves requests from a thread *)
(* pool, and no operation takes a lock: the statements of different        *)
(* threads interleave. One dict operation (get, item assignment, clear)    *)
(* is atomic under the interpreter lock; a backend call is where a thread  *)
(* blocks. A step of an operation holds at most one backend call and at    *)
(* most one operation on the cache.                                        *)
(* A search thread is at "idle", at "execute" (lookup missed, query built, *)
(* the backend call running) or at "store" (SearchResult built, about to   *)
(* call _add_to_cache); the writing thread is at "idle" or at "clear"      *)
(* (document saved, about to clear the cache); the thread that runs        *)
(* refresh_index and validate_connection is between two of their backend   *)
(* calls. sLast is what the operation that returned last did.              *)
(***************************************************************************)
SNoOp == [op |-> "none"]

SearchThreads == {"s1", "s2"}
WriterThread == "w"
AdminThread == "a"
Threads == SearchThreads \cup {WriterThread, AdminThread}

ThreadIdle == [pc |-> "idle", call |-> Nothing]

SearchInit ==
    /\ clock = 0
    /\ ticks = 0
    /\ cache = [k \in CacheKeys |-> Nothing]
    /\ sLast = SNoOp
    /\ sFlip = FALSE
    /\ health = "green"
    /\ index = get_index_settings
    /\ qbLast = SNoOp

ThreadsInit ==
    /\ th = [t \in Threads |-> ThreadIdle]
    /\ ghost = [requests |-> 0, saves |-> 0, clears |-> 0,
                origin |-> [k \in CacheKeys |-> Nothing]]

SearchTick ==
    \E d \in SearchDeltas :
        /\ ticks < MaxTicks
        /\ ticks' = ticks + 1
        /\ clock' = clock + d
        /\ UNCHANGED <<cache, sLast, sFlip, clusterVars, qbLast>>
        /\ UNCHANGED <<aiVars, thVars>>

\* when the result the last search returned was fetched from the backend
LastFetchedAt == IF sLast.hit THEN sLast.at - sLast.age ELSE sLast.done

\* what a search that begins now knows and has seen: the lookup, and whether
\* it comes right after the operation that returned last, with no other
\* operation under way
SearchCall(t, op, kw, q, l) ==
    LET quiet == \A u \in Threads \ {t} : th[u].pc = "idle"
        inRow == /\ quiet
                 /\ sLast.op \in {"search", "search_request"}
                 /\ sLast.returned # Nothing
                 /\ sLast.query = q
        afterWrite == quiet /\ sLast.op = "index_detection" /\ sLast.returned
    IN  [op |-> op, kw |-> kw, query |-> q, at |-> clock, age |-> l.age,
         inRow |-> inRow,
         prevReturned |-> IF inRow THEN sLast.returned ELSE Nothing,
         prevAt |-> IF inRow THEN sLast.at ELSE 0,
         prevFetchedAt |-> IF inRow THEN LastFetchedAt ELSE 0,
         afterWrite |-> afterWrite,
         dropped |-> IF afterWrite THEN sLast.dropped ELSE {},
         start |-> ghost.clears,
         served |-> IF l.hit THEN dict_get(ghost.origin, _generate_cache_key(q))
                    ELSE Nothing,
         backend |-> None, shards |-> None, reported |-> <<>>,
         result |-> Nothing, seen |-> 0, raced |-> Nothing]

\* how a search ended: what it returned or raised through error_handler
SearchEnd(returned, exc, hit, calls, stored, replaced) ==
    [returned |-> returned,
     raised |-> IF exc = None THEN None ELSE error_handler(exc),
     raisedType |-> IF exc = None THEN None ELSE error_handler_raises(exc),
     hit |-> hit, backendCalls |-> calls, searchCalls |-> 1, stored |-> stored,
     done |-> IF returned = Nothing THEN 0 - 1 ELSE clock, replaced |-> replaced]

\* search is entered with q: lines 99-109, the lookup; a hit returns, a miss
\* builds the query and goes on to the backend call
BeginSearch(t, op, kw, q) ==
    \E l \in {search_lookup(cache, q, clock)} :
    \E call \in {SearchCall(t, op, kw, q, l)} :
        /\ IF l.hit
           THEN /\ sLast' = call @@ SearchEnd(l.cached_result, None, TRUE, 0, FALSE,
                                              Nothing)
                /\ sFlip' = ~sFlip
                /\ th' = th
           ELSE IF l.raised # None
           THEN /\ sLast' = call @@ SearchEnd(Nothing, l.raised, FALSE, 0, FALSE,
                                              Nothing)
                /\ sFlip' = ~sFlip
                /\ th' = th
           ELSE /\ th' = [th EXCEPT ![t] = [pc |-> "execute", call |-> call]]
                /\ UNCHANGED <<sLast, sFlip>>
        /\ ghost' = [ghost EXCEPT !.requests = @ + 1]
        /\ UNCHANGED <<clock, ticks, cache, clusterVars, qbLast>>
        /\ UNCHANGED aiVars

\* search(q), lines 99-109
SearchLookup(t) ==
    /\ th[t].pc = "idle" /\ ghost.requests < MaxRequests
    /\ \E q \in Queries : BeginSearch(t, "search", Nothing, q)

\* search, lines 110-132: the backend call and the construction of the result
SearchExecute(t) ==
    /\ th[t].pc = "execute"
    /\ \E resp \in BackendResponses :
       \E r \in {search_execute(cache, _generate_cache_key(th[t].call.query),
                                clock, resp)} :
       \E call \in {[th[t].call EXCEPT
                        !.backend = resp.kind,
                        !.shards = IF resp.kind = "ok" THEN resp.shards ELSE None,
                        !.reported = resp.scores,
                        !.seen = ghost.saves]} :
          /\ cache' = r.cache
          /\ IF Raised(r.built)
             THEN /\ sLast' = call @@ SearchEnd(Nothing, r.built.exc, FALSE, 1, FALSE,
                                                Nothing)
                  /\ sFlip' = ~sFlip
                  /\ th' = [th EXCEPT ![t] = ThreadIdle]
             ELSE /\ th' = [th EXCEPT ![t] =
                              [pc |-> "store",
                               call |-> [call EXCEPT !.result = r.built]]]
                  /\ UNCHANGED <<sLast, sFlip>>
    /\ UNCHANGED <<clock, ticks, clusterVars, qbLast, ghost>>
    /\ UNCHANGED aiVars

\* search, lines 134-137: _add_to_cache and return
SearchStore(t) ==
    /\ th[t].pc = "store"
    /\ \E call \in {th[t].call} :
       \E key \in {_generate_cache_key(call.query)} :
       \E old \in {dict_get(cache, key)} :
          /\ cache' = _add_to_cache(cache, key, call.result, clock)
          /\ ghost' = [ghost EXCEPT !.origin =
                          [k \in DOMAIN ghost.origin \cup {key} |->
                              IF k = key
                              THEN [seen |-> call.seen, after |-> ghost.clears]
                              ELSE ghost.origin[k]]]
          /\ sLast' = call @@ SearchEnd(call.result, None, FALSE, 1, TRUE,
                                        IF old = Nothing THEN Nothing ELSE old.result)
          /\ sFlip' = ~sFlip
          /\ th' = [u \in Threads |->
                      IF u = t THEN ThreadIdle
                      ELSE IF th[u].pc \in {"execute", "store"}
                              /\ th[u].call.query = call.query
                      THEN [th[u] EXCEPT !.call.raced = call.result]
                      ELSE th[u]]
    /\ UNCHANGED <<clock, ticks, clusterVars, qbLast>>
    /\ UNCHANGED aiVars

\* index_detection, lines 221-229: conversion and doc.save; any exception
\* ends the call with False
WriterSave ==
    /\ th[WriterThread].pc = "idle" /\ ghost.requests < MaxRequests
    /\ \E data_ok \in BOOLEAN, save_ok \in BOOLEAN :
       \E r \in {index_detection_save(cache, data_ok, save_ok)} :
       \E call \in {[op |-> "index_detection", health |-> health,
                     saved |-> r.saved, saves |-> r.saves]} :
          /\ cache' = r.cache
          /\ IF r.saved
             THEN /\ th' = [th EXCEPT ![WriterThread] =
                              [pc |-> "clear", call |-> call]]
                  /\ ghost' = [ghost EXCEPT !.requests = @ + 1, !.saves = @ + 1]
                  /\ UNCHANGED <<sLast, sFlip>>
             ELSE /\ sLast' = call @@ [returned |-> FALSE,
                                       dropped |-> Cached(cache) \ Cached(r.cache)]
                  /\ sFlip' = ~sFlip
                  /\ th' = th
                  /\ ghost' = [ghost EXCEPT !.requests = @ + 1]
    /\ UNCHANGED <<clock, ticks, clusterVars, qbLast>>
    /\ UNCHANGED aiVars

\* index_detection, lines 231-234: _clear_related_caches and return True
WriterClear ==
    /\ th[WriterThread].pc = "clear"
    /\ cache' = _clear_related_caches(cache)
    /\ ghost' = [ghost EXCEPT !.clears = @ + 1,
                              !.origin = [k \in DOMAIN ghost.origin |->
                                            IF dict_get(cache', k) = Nothing
                                            THEN Nothing ELSE ghost.origin[k]]]
    /\ sLast' = th[WriterThread].call
                   @@ [returned |-> TRUE, dropped |-> Cached(cache) \ Cached(cache')]
    /\ sFlip' = ~sFlip
    /\ th' = [th EXCEPT ![WriterThread] = ThreadIdle]
    /\ UNCHANGED <<clock, ticks, clusterVars, qbLast>>
    /\ UNCHANGED aiVars

\* the steps of the request threads
NextThreads ==
    \/ \E t \in SearchThreads : SearchLookup(t) \/ SearchExecute(t) \/ SearchStore(t)
    \/ WriterSave
    \/ WriterClear

NextSearch == SearchTick \/ NextThreads

(***************************************************************************)
(* Requests to the running service: searches of freshly constructed        *)
(* SearchQuery objects and suggestions, next to the searches above.        *)
(***************************************************************************)
\* the keywords of a well-formed request
BaseKeywords ==
    [query_text : {"ransomware detection", "lateral movement"},
     platforms : {Nothing}, tags : {Nothing}, min_quality_score : {Nothing},
     from_ : {0}, size : {20}]

\* well-formed requests, and requests with one keyword out of range
RequestKeywords ==
    BaseKeywords
    \cup {[kw EXCEPT !.query_text = t] :
            kw \in BaseKeywords, t \in {"", "ab", Repeat("*", MAX_QUERY_LENGTH + 1)}}
    \cup {[kw EXCEPT !.platforms = Some(<<"EDR", "XDR">>)] : kw \in BaseKeywords}
    \cup {[kw EXCEPT !.min_quality_score = Some(v)] :
            kw \in BaseKeywords, v \in {0 - 1, MAX_QUALITY_SCORE + 1}}
    \cup {[kw EXCEPT !.from_ = 0 - 1] : kw \in BaseKeywords}
    \cup {[kw EXCEPT !.size = v] : kw \in BaseKeywords, v \in {0, MAX_PAGE_SIZE + 1}}

\* service.search(SearchQuery(...)): the query object is constructed first,
\* and search is entered only with the object
RequestLookup(t) ==
    /\ th[t].pc = "idle" /\ ghost.requests < MaxRequests
    /\ \E kw \in RequestKeywords :
       \E q \in {SearchQuery(kw)} :
          IF Raised(q)
          THEN /\ sLast' = [op |-> "search_request", kw |-> kw, query |-> Nothing,
                            returned |-> Nothing, raised |-> None,
                            raisedType |-> q.exc, hit |-> FALSE,
                            backendCalls |-> 0, searchCalls |-> 0,
                            stored |-> FALSE]
               /\ sFlip' = ~sFlip
               /\ ghost' = [ghost EXCEPT !.requests = @ + 1]
               /\ UNCHANGED <<clock, ticks, cache, clusterVars, qbLast, th>>
               /\ UNCHANGED aiVars
          ELSE BeginSearch(t, "search_request", kw, q)

\* the most options a suggestion response holds
MaxOptions == 25

Prefixes == {"", "r", "ra", "ran"}
Limits == {Nothing} \cup {Some(n) : n \in {0 - 1, 0, 5, SUGGEST_MAX, SUGGEST_MAX + 1}}
OptionCounts == {0, 3, MaxOptions}

\* get_suggestions: it makes one backend call and reads and writes nothing the
\* threads share, so the steps of other threads do not show in it
GetSuggestions ==
    /\ ghost.requests < MaxRequests
    /\ \E prefix \in Prefixes, limit \in Limits :
       \E response \in SuggestResponses(prefix, OptionCounts) :
       \E r \in {get_suggestions(prefix, limit, response)} :
        /\ ghost' = [ghost EXCEPT !.requests = @ + 1]
        /\ UNCHANGED th
        /\ sLast' = [op |-> "get_suggestions", prefix |-> prefix, limit |-> limit,
                     returned |-> r.returned, raised |-> r.raised,
                     raisedType |-> r.raisedType, backendCalls |-> r.backendCalls,
                     asked |-> r.asked,
                     answered |-> IF r.backendCalls = 0 \/ Raised(response)
                                  THEN Nothing ELSE Some(Len(response.options))]
        /\ sFlip' = ~sFlip
        /\ UNCHANGED <<clock, ticks, cache, clusterVars, qbLast>>
        /\ UNCHANGED aiVars

NextRequests ==
    \/ \E t \in SearchThreads :
          SearchLookup(t) \/ RequestLookup(t) \/ SearchExecute(t) \/ SearchStore(t)
    \/ GetSuggestions

(***************************************************************************)
(* The service and the cluster: health and index change under it, also     *)
(* between two backend calls of one operation.                             *)
(***************************************************************************)
\* the cluster changes on its own: its health, and the index is deleted or
\* created by others
ClusterChange ==
    \E h \in HealthStates, ix \in IndexStates :
        /\ <<h, ix>> # <<health, index>>
        /\ health' = h
        /\ index' = ix
        /\ UNCHANGED <<clock, ticks, cache, sLast, sFlip, qbLast>>
        /\ UNCHANGED <<aiVars, thVars>>

\* an operation of the admin thread returns
AdminReturns(done) ==
    /\ sLast' = done
    /\ sFlip' = ~sFlip
    /\ th' = [th EXCEPT ![AdminThread] = ThreadIdle]

\* an operation of the admin thread goes on to its next backend call
AdminGoes(pc, call) ==
    /\ th' = [th EXCEPT ![AdminThread] = [pc |-> pc, call |-> call]]
    /\ UNCHANGED <<sLast, sFlip>>

\* refresh_index, lines 193-196: cluster.health and the test of the status
RefreshHealth ==
    /\ th[AdminThread].pc = "idle" /\ ghost.requests < MaxRequests
    /\ \E health_ok \in BOOLEAN :
       \E call \in {[op |-> "refresh_index",
                     reported |-> IF health_ok THEN health ELSE None,
                     healthChecks |-> 1, refreshes |-> 0]} :
          IF health_ok /\ health_allows_refresh(health)
          THEN AdminGoes("refresh", call)
          ELSE AdminReturns(call @@ [returned |-> FALSE])
    /\ ghost' = [ghost EXCEPT !.requests = @ + 1]
    /\ UNCHANGED <<clock, ticks, cache, clusterVars, qbLast>>
    /\ UNCHANGED aiVars

\* refresh_index, line 199: indices.refresh
RefreshRefresh ==
    /\ th[AdminThread].pc = "refresh"
    /\ \E refresh_ok \in BOOLEAN :
       \E call \in {[th[AdminThread].call EXCEPT !.refreshes = 1]} :
          IF refresh_ok
          THEN AdminGoes("stats", call)
          ELSE AdminReturns(call @@ [returned |-> FALSE])
    /\ UNCHANGED <<clock, ticks, cache, clusterVars, qbLast, ghost>>
    /\ UNCHANGED aiVars

\* refresh_index, lines 202-205: indices.stats and return True
RefreshStats ==
    /\ th[AdminThread].pc = "stats"
    /\ \E stats_ok \in BOOLEAN :
          AdminReturns(th[AdminThread].call @@ [returned |-> stats_ok])
    /\ UNCHANGED <<clock, ticks, cache, clusterVars, qbLast, ghost>>
    /\ UNCHANGED aiVars

\* validate_connection, elasticsearch.py:190-197: cluster.health and the test
\* of the status
ValidateHealth ==
    /\ th[AdminThread].pc = "idle" /\ ghost.requests < MaxRequests
    /\ \E health_ok \in BOOLEAN :
       \E call \in {[op |-> "validate_connection", before |-> index,
                     existed |-> None, creates |-> 0, presentAtCreate |-> None]} :
          IF health_ok /\ health # "red"
          THEN AdminGoes("exists", call)
          ELSE AdminReturns(call @@ [returned |-> FALSE, after |-> index])
    /\ ghost' = [ghost EXCEPT !.requests = @ + 1]
    /\ UNCHANGED <<clock, ticks, cache, clusterVars, qbLast>>
    /\ UNCHANGED aiVars

\* validate_connection, lines 200-201: index.exists()
ValidateExists ==
    /\ th[AdminThread].pc = "exists"
    /\ \E exists_ok \in BOOLEAN :
       \E exists \in {index # Nothing} :
       \E call \in {[th[AdminThread].call EXCEPT
                        !.existed = IF ~exists_ok THEN None
                                     ELSE IF exists THEN "yes" ELSE "no"]} :
          IF ~exists_ok
          THEN AdminReturns(call @@ [returned |-> FALSE, after |-> index])
          ELSE IF needs_create(exists)
          THEN AdminGoes("create", call)
          ELSE AdminGoes("search", call)
    /\ UNCHANGED <<clock, ticks, cache, clusterVars, qbLast, ghost>>
    /\ UNCHANGED aiVars

\* validate_connection, lines 202-203: index.create(body=get_index_settings());
\* the cluster refuses to create an index that exists
ValidateCreate ==
    /\ th[AdminThread].pc = "create"
    /\ \E create_ok \in BOOLEAN :
       \E call \in {[th[AdminThread].call EXCEPT
                        !.creates = 1,
                        !.presentAtCreate = IF index # Nothing THEN "yes" ELSE "no"]} :
          IF create_ok /\ index = Nothing
          THEN /\ index' = get_index_settings
               /\ AdminGoes("search", call)
          ELSE /\ index' = index
               /\ AdminReturns(call @@ [returned |-> FALSE, after |-> index])
    /\ UNCHANGED <<clock, ticks, cache, health, qbLast, ghost>>
    /\ UNCHANGED aiVars

\* validate_connection, lines 205-209: client.search and return True
ValidateSearch ==
    /\ th[AdminThread].pc = "search"
    /\ \E search_ok \in BOOLEAN :
          AdminReturns(th[AdminThread].call
                          @@ [returned |-> search_ok, after |-> index])
    /\ UNCHANGED <<clock, ticks, cache, clusterVars, qbLast, ghost>>
    /\ UNCHANGED aiVars

NextCluster ==
    \/ ClusterChange
    \/ RefreshHealth \/ RefreshRefresh \/ RefreshStats
    \/ WriterSave \/ WriterClear
    \/ ValidateHealth \/ ValidateExists \/ ValidateCreate \/ ValidateSearch

(***************************************************************************)
(* The query builder and the SearchQuery constructor, applied to inputs.   *)
(***************************************************************************)
\* the most tokens of a query text
MaxTokens == 5

\* sep.join of the n words "w", "ww", ...
RECURSIVE JoinWords(_, _)
JoinWords(n, sep) ==
    IF n = 0 THEN ""
    ELSE IF n = 1 THEN "w"
    ELSE JoinWords(n - 1, sep) \o sep \o Repeat("w", n)

\* a text of n whitespace-delimited tokens
Phrase(n, sep, pad) == pad \o JoinWords(n, sep) \o pad

BuildTextQuery ==
    \E n \in 0..MaxTokens, sep \in {" ", "  ", "\t", " \n ", "\r", "\f"},
       pad \in {"", " "} :
        /\ qbLast' = [op |-> "build_text_query", tokens |-> n,
                      query_text |-> Phrase(n, sep, pad),
                      built |-> build_text_query(Phrase(n, sep, pad))]
        /\ UNCHANGED <<clock, ticks, cache, sLast, sFlip, clusterVars>>
        /\ UNCHANGED <<aiVars, thVars>>

PlatformLists == {Nothing, Some(<<>>), Some(<<"EDR">>), Some(<<"SIEM", "EDR">>)}
TagLists == {Nothing, Some(<<>>), Some(<<"windows", "threat-hunting">>)}
QualityScores == {Nothing, Some(0), Some(1), Some(MAX_QUALITY_SCORE)}

\* build_search_query applied to a query object with these facets
BuildSearchQuery ==
    \E platforms \in PlatformLists, tags \in TagLists,
       min_quality_score \in QualityScores :
        /\ qbLast' = [op |-> "build_search_query", platforms |-> platforms,
                      tags |-> tags, min_quality_score |-> min_quality_score,
                      filter |-> search_filter(platforms, tags, min_quality_score)]
        /\ UNCHANGED <<clock, ticks, cache, sLast, sFlip, clusterVars>>
        /\ UNCHANGED <<aiVars, thVars>>

\* keywords at and beyond the edges of what SearchQuery accepts
EdgeKeywords ==
    [query_text : {"ab", "abc", Repeat("*", MAX_QUERY_LENGTH),
                   Repeat("*", MAX_QUERY_LENGTH + 1)},
     platforms : {Nothing, Some(<<"NSM", "XDR">>)},
     tags : {Nothing, Some(<<"threat-hunting", "a b">>), Some(<<Repeat("t", 51)>>),
             Some(<<"windows", "été", "a-é">>)},
     min_quality_score : {Nothing, Some(0 - 1), Some(0), Some(MAX_QUALITY_SCORE + 1)},
     from_ : {0 - 1, 0},
     size : {0, 1, MAX_PAGE_SIZE, MAX_PAGE_SIZE + 1}]

Construct ==
    \E kw \in EdgeKeywords :
        /\ qbLast' = [op |-> "SearchQuery", kw |-> kw, object |-> SearchQuery(kw)]
        /\ UNCHANGED <<clock, ticks, cache, sLast, sFlip, clusterVars>>
        /\ UNCHANGED <<aiVars, thVars>>

\* pairs of requests that differ at most in their filter lists
KeyedKeywords ==
    [query_text : {"ransomware detection"},
     platforms : {Nothing, Some(<<"SIEM", "EDR">>), Some(<<"EDR", "SIEM">>)},
     tags : {Nothing, Some(<<"windows", "threat-hunting">>),
             Some(<<"threat-hunting", "windows">>)},
     min_quality_score : {Nothing}, from_ : {0}, size : {20}]

\* _generate_cache_key applied to two SearchQuery objects
GenerateCacheKey ==
    \E ka \in KeyedKeywords, kb \in KeyedKeywords :
        /\ qbLast' = [op |-> "_generate_cache_key",
                      first |-> SearchQuery(ka), second |-> SearchQuery(kb),
                      keys |-> <<_generate_cache_key(SearchQuery(ka)),
                                 _generate_cache_key(SearchQuery(kb))>>]
        /\ UNCHANGED <<clock, ticks, cache, sLast, sFlip, clusterVars>>
        /\ UNCHANGED <<aiVars, thVars>>

\* page requests within and beyond what SearchQuery accepts
PageKeywords ==
    [query_text : {"ransomware detection"}, platforms : {Nothing}, tags : {Nothing},
     min_quality_score : {Nothing},
     from_ : {0, MAX_PAGE_SIZE}, size : {1, 20, MAX_PAGE_SIZE}]

\* objects that do carry the attributes build_search_query reads
PagedObjects ==
    [has_paging : {TRUE}, page_number : {0, 1, 3}, page_size : {0, 20, MAX_PAGE_SIZE + 1}]

\* the pagination step of build_search_query applied to a query object
BuildPagination ==
    \E q \in {SearchQuery(kw) : kw \in PageKeywords} \cup PagedObjects :
        /\ qbLast' = [op |-> "search_pagination", object |-> q,
                      extra |-> search_pagination(q)]
        /\ UNCHANGED <<clock, ticks, cache, sLast, sFlip, clusterVars>>
        /\ UNCHANGED <<aiVars, thVars>>

NextQuery ==
    BuildTextQuery \/ BuildSearchQuery \/ Construct \/ GenerateCacheKey
       \/ BuildPagination

Init == AiInit /\ SearchInit /\ ThreadsInit

SpecAI == Init /\ [][NextAI]_vars

SpecSearch == Init /\ [][NextSearch]_vars

SpecRequests == Init /\ [][NextRequests]_vars

SpecCluster == Init /\ [][NextCluster]_vars

SpecQuery == Init /\ [][NextQuery]_vars

SpecThreads == Init /\ [][NextThreads]_vars


(***************************************************************************)
(* Claims about the resilience wrapper, checked under SpecAI.              *)
(***************************************************************************)
AttemptsOfLastCall == 1..Len(aiLast.log)
NonTransientRaised == {"validation", "bind"}

\* C4: after 5 consecutive failed backend calls, each within 60 seconds of the
\* one before, the breaker is OPEN (so that the next call fails fast).
C4_FiveFailuresOpen ==
    (streak >= 5 /\ aiNow - streakTime <= 60) => is_open(breaker, aiNow)

\* C5: an invocation of the breaker's wrapper that finds the breaker OPEN
\* (failure count >= 5, at most 60 seconds since the last recorded failure) is
\* rejected with the service-unavailable error and does not invoke the wrapped
\* operation; a logical call all of whose attempts were rejected made no
\* backend call.
C5_OpenRejects ==
    /\ \A i \in AttemptsOfLastCall :
          (aiLast.log[i].failures >= 5 /\ aiLast.log[i].elapsed <= 60)
             => /\ aiLast.log[i].rejected
                /\ ~aiLast.log[i].invoked
                /\ aiLast.log[i].raised = "unavailable"
    /\ (aiLast.kind = "coroutine" /\ \A i \in AttemptsOfLastCall : aiLast.log[i].rejected)
          => (aiLast.backendCalls = 0 /\ aiLast.awaited = "na")

C5_Witness ==
    \E i \in AttemptsOfLastCall :
        /\ aiLast.log[i].failures >= 5
        /\ aiLast.log[i].elapsed <= 60
        /\ aiLast.log[i].rejected

\* C6: an invocation made strictly more than 60 seconds after the last recorded
\* failure finds the breaker CLOSED, its failure count reset to zero (so the
\* count afterwards is 0, or 1 when this invocation itself fails), and invokes
\* the wrapped operation; at 60 seconds or less an OPEN breaker stays OPEN:
\* the invocation is rejected and count and timestamp are left as they were.
C6_TimeBasedReset ==
    \A i \in AttemptsOfLastCall :
        LET e == aiLast.log[i] IN
        /\ e.elapsed > 60
             => /\ ~e.rejected
                /\ e.invoked
                /\ e.after = (IF e.raised = "none" THEN 0 ELSE 1)
        /\ (e.elapsed <= 60 /\ e.failures >= 5)
             => /\ e.rejected
                /\ e.after = e.failures
                /\ ~e.stamped

\* one logical call saw both sides of the boundary: rejected while OPEN at
\* exactly 60 seconds, then let through once more than 60 seconds had passed
C6_Witness ==
    \E i, j \in AttemptsOfLastCall :
        /\ aiLast.log[i].failures >= 5 /\ aiLast.log[i].elapsed = 60
        /\ aiLast.log[i].rejected
        /\ aiLast.log[j].failures >= 5 /\ aiLast.log[j].elapsed > 60
        /\ aiLast.log[j].invoked

\* C7: one logical call attempts the wrapped operation at most 3 times; when
\* the third attempt fails too, the call ends there with the failure raised to
\* the caller.
C7_BoundedRetry ==
    /\ Len(aiLast.log) <= 3
    /\ aiLast.backendCalls <= 3
    /\ (Len(aiLast.log) = 3 /\ aiLast.log[3].raised # "none")
          => aiLast.result = "RetryError"

C7_Witness ==
    /\ Len(aiLast.log) = 3
    /\ \A i \in AttemptsOfLastCall : aiLast.log[i].invoked /\ aiLast.log[i].raised # "none"
    /\ aiLast.result = "RetryError"

\* C8: an attempt that fails with a non-transient error is the only attempt of
\* its logical call: nothing is attempted after it; and a call whose body
\* rejects its arguments has invoked the operation exactly once.
C8_NonTransientNotRetried ==
    /\ \A i \in AttemptsOfLastCall :
          aiLast.log[i].raised \in NonTransientRaised
             => (i = 1 /\ Len(aiLast.log) = 1)
    /\ aiLast.awaited = "validation"
          => Cardinality({i \in AttemptsOfLastCall : aiLast.log[i].invoked}) = 1

\* a logical call has just succeeded as its caller sees it: the wrapper
\* returned and awaiting what it returned gave the backend's answer
LastCallSucceeded == aiLast.kind = "answer" /\ aiLast.awaited = "ok"

\* C21: a successful call resets the failure count: once a logical call has
\* succeeded the breaker's count is 0, so that failures before the success
\* and failures after it never add up to the threshold.
C21_SuccessResetsCount ==
    LastCallSucceeded => breaker.failures = 0

\* C22: the circuit is checked once per logical call, before the retried
\* backend call: an attempt rejected because the breaker is OPEN is the first
\* and only attempt of its logical call (no retry, no backoff wait).
C22_RejectionNotRetried ==
    \A i \in AttemptsOfLastCall :
        aiLast.log[i].rejected => (i = 1 /\ Len(aiLast.log) = 1)

\* C28: an invocation rejected because the breaker is OPEN leaves the failure
\* count and the last-failure timestamp as they were, and a logical call all
\* of whose attempts were rejected leaves the breaker unchanged; so an
\* invocation made more than 60 seconds after the last recorded failure is
\* never rejected, whatever was rejected before it.
C28_RejectionFrame ==
    [][ aiFlip' # aiFlip =>
          /\ \A i \in 1..Len(aiLast'.log) :
                LET e == aiLast'.log[i] IN
                /\ e.rejected => (e.after = e.failures /\ ~e.stamped)
                /\ e.elapsed > 60 => ~e.rejected
          /\ (\A i \in 1..Len(aiLast'.log) : aiLast'.log[i].rejected)
                => breaker' = breaker ]_vars

\* a logical call rejected on each of its three attempts, the count still at
\* the threshold afterwards
C28_Witness ==
    /\ Len(aiLast.log) = 3
    /\ \A i \in AttemptsOfLastCall :
          aiLast.log[i].rejected /\ aiLast.log[i].failures = aiLast.log[i].after
    /\ breaker.failures = failure_threshold

(***************************************************************************)
(* Claims about the search service, checked under SpecSearch.              *)
(***************************************************************************)
LastReturned == sLast.op = "search" /\ sLast.returned # Nothing

\* C1 as stated: the same query searched twice in a row (the second entered
\* after the first has returned, nothing else returned or under way in
\* between), the second less than 300 seconds after the first and no write in
\* between: the second returns the result of the first and makes no backend
\* call.
C1_Original ==
    (sLast.op = "search" /\ sLast.inRow /\ sLast.at - sLast.prevAt < 300)
       => (sLast.returned = sLast.prevReturned /\ sLast.backendCalls = 0)

\* C1 amended: the same, when the second search comes less than 300 seconds
\* after the result was fetched from the backend and stored.
C1_CacheIdempotence ==
    (sLast.op = "search" /\ sLast.inRow /\ sLast.at - sLast.prevFetchedAt < 300)
       => (sLast.returned = sLast.prevReturned /\ sLast.backendCalls = 0
           /\ sLast.hit)

\* a search served from the entry stored less than 300 seconds before
C1_Witness ==
    /\ LastReturned /\ sLast.inRow /\ sLast.hit /\ sLast.backendCalls = 0
    /\ sLast.age > 0 /\ sLast.age < 300

\* C2: a lookup 300 seconds or more after the entry was stored is a miss, and
\* the search goes to the backend.
C2_ExpiredIsMiss ==
    (sLast.op = "search" /\ sLast.age >= 300)
       => (~sLast.hit /\ (sLast.query.has_paging => sLast.backendCalls = 1))

\* C3: after index_detection has returned True the cache is empty, and a
\* search issued right after it is a miss that goes to the backend.
C3_InvalidationOnWrite ==
    /\ (sLast.op = "index_detection" /\ sLast.returned) => Cached(cache) = {}
    /\ (sLast.op = "search" /\ sLast.afterWrite)
          => (~sLast.hit /\ (sLast.query.has_paging => sLast.backendCalls = 1))

\* a query whose entry the write dropped was searched again and fetched afresh
C3_Witness ==
    /\ sLast.op = "search" /\ sLast.afterWrite
    /\ _generate_cache_key(sLast.query) \in sLast.dropped
    /\ sLast.backendCalls = 1

\* C9: every hit of a returned SearchResult has a score within [0.0, 1.0],
\* whatever score the backend reported for it: a search whose backend answered
\* with hits and complete telemetry returns a SearchResult with one hit per
\* reported hit, each with the reported score clamped into [0.0, 1.0].
C9_ScoresNormalised ==
    /\ LastReturned =>
          \A i \in 1..Len(sLast.returned.hits) :
              /\ sLast.returned.hits[i].score >= 0
              /\ sLast.returned.hits[i].score <= ScoreScale
    /\ (sLast.op = "search" /\ sLast.backend = "ok" /\ sLast.shards = "present")
          => /\ LastReturned
             /\ Len(sLast.returned.hits) = Len(sLast.reported)
             /\ \A i \in 1..Len(sLast.reported) :
                   sLast.returned.hits[i].score = normalize_score(sLast.reported[i])

\* C10: a backend response without shard-count telemetry makes search raise;
\* no SearchResult is returned or cached for it.
C10_AssemblyIntegrity ==
    (sLast.op = "search" /\ sLast.shards = "missing")
       => (sLast.returned = Nothing /\ sLast.raised # None /\ ~sLast.stored)

C10_Witness ==
    /\ sLast.op = "search" /\ sLast.shards = "missing"
    /\ sLast.backendCalls = 1 /\ sLast.backend = "ok" /\ sLast.reported = <<>>
    /\ sLast.raised = "Internal search service error"

\* C20: when the backend call of a search fails with a timeout, search raises
\* a SearchServiceError whose message, lowercased, contains "timeout".
C20_TimeoutReporting ==
    (sLast.op = "search" /\ sLast.backend = "ConnectionTimeout")
       => /\ sLast.raisedType = "SearchServiceError"
          /\ contains(lower(sLast.raised), "timeout")

\* C23: a lookup that finds an entry past its TTL evicts it: after a search
\* whose lookup missed on an entry 300 seconds old or more, the cache holds
\* for that key nothing, or an entry stored since that lookup.
C23_ExpiredEvicted ==
    (sLast.op = "search" /\ sLast.age >= 300 /\ ~sLast.hit)
       => LET e == cache[_generate_cache_key(sLast.query)]
          IN  e = Nothing \/ e.timestamp >= sLast.at

\* C29: the step in which a search raises leaves the cache as it is, and so
\* does every step of a search but its last one, the store: the cache changes
\* only when a search that has made a successful backend call and built its
\* SearchResult stores that result under the key of its query, or when the
\* writer clears it.
C29_FailedSearchFrame ==
    [][ /\ (sFlip' # sFlip /\ sLast'.op = "search" /\ sLast'.raised # None)
              => cache' = cache
        /\ cache' # cache =>
              \/ th[WriterThread].pc = "clear" /\ th'[WriterThread].pc = "idle"
              \/ \E t \in SearchThreads :
                    /\ th[t].pc = "store" /\ th'[t].pc = "idle"
                    /\ sLast'.backendCalls = 1 /\ sLast'.backend = "ok"
                    /\ sLast'.returned # Nothing
                    /\ cache' = [cache EXCEPT ![_generate_cache_key(sLast'.query)] =
                                    [result |-> sLast'.returned,
                                     timestamp |-> sLast'.done]]
      ]_vars

\* the backend answered, building the result failed, and the expired entry of
\* the query is still the one stored before
C29_Witness ==
    /\ sLast.op = "search" /\ sLast.raised # None
    /\ sLast.backendCalls = 1 /\ sLast.backend = "ok"
    /\ cache[_generate_cache_key(sLast.query)] # Nothing
    /\ cache[_generate_cache_key(sLast.query)].timestamp < sLast.at

\* C30: index_detection returns True exactly when the document was saved, and
\* it clears the cache only then, after the save: the save leaves the cache as
\* it is, a call whose conversion or save failed returns False with the cache
\* untouched, and the call that returns True leaves the cache empty.
C30_ClearIffSaved ==
    [][ /\ (th[WriterThread].pc = "idle" /\ th'[WriterThread].pc = "clear")
              => cache' = cache
        /\ (sFlip' # sFlip /\ sLast'.op = "index_detection") =>
              /\ sLast'.returned <=> sLast'.saved
              /\ IF sLast'.saved THEN Cached(cache') = {} ELSE cache' = cache
      ]_vars

\* a save that failed with entries in the cache, all of them kept
C30_Witness ==
    /\ sLast.op = "index_detection" /\ ~sLast.returned
    /\ sLast.saves = 1 /\ ~sLast.saved
    /\ Cached(cache) # {} /\ sLast.dropped = {}

(***************************************************************************)
(* Claims about requests to the service, checked under SpecRequests.       *)
(***************************************************************************)
\* the keywords are out of range or malformed: the text shorter than 3 or
\* longer than 500 characters, a platform outside SIEM, EDR and NSM, a minimum
\* quality score outside [0.0, 1.0], a negative offset, a page size outside
\* 1..100
OutOfRange(kw) ==
    \/ Len(kw.query_text) < 3
    \/ Len(kw.query_text) > 500
    \/ /\ kw.platforms # Nothing
       /\ \E i \in 1..Len(kw.platforms.some) :
             kw.platforms.some[i] \notin {"SIEM", "EDR", "NSM"}
    \/ /\ kw.min_quality_score # Nothing
       /\ (kw.min_quality_score.some < 0 \/ kw.min_quality_score.some > ScoreScale)
    \/ kw.from_ < 0
    \/ kw.size < 1
    \/ kw.size > 100

\* C11: a search request whose keywords are out of range or malformed is
\* rejected by validation with an error to the caller: search is not entered,
\* no backend call is made and nothing is stored in the cache.
C11_ValidationBeforeBackend ==
    (sLast.op = "search_request" /\ OutOfRange(sLast.kw))
       => /\ sLast.raisedType = "ValidationError"
          /\ sLast.returned = Nothing
          /\ sLast.searchCalls = 0
          /\ sLast.backendCalls = 0
          /\ ~sLast.stored

\* a request with a negative offset was rejected while the cache held entries
C11_Witness ==
    /\ sLast.op = "search_request" /\ sLast.kw.from_ < 0
    /\ sLast.raisedType = "ValidationError"
    /\ Cached(cache) # {}

\* C12: whatever fails inside search or get_suggestions reaches the caller as
\* a SearchServiceError, never as a backend-specific exception.
C12_UniformErrorKind ==
    (/\ sLast.op \in {"search", "search_request", "get_suggestions"}
     /\ sLast.op = "search_request" => sLast.searchCalls = 1
     /\ sLast.raisedType # None)
       => sLast.raisedType = "SearchServiceError"

\* the backend rejected the request of a search
C12_Witness ==
    /\ sLast.op = "search" /\ sLast.backend = "RequestError"
    /\ sLast.raisedType = "SearchServiceError"
    /\ sLast.raised = "Invalid search request"

\* C13: get_suggestions with a prefix of fewer than 2 characters returns the
\* empty sequence, raises nothing and makes no backend call.
C13_ShortPrefix ==
    (sLast.op = "get_suggestions" /\ Len(sLast.prefix) < 2)
       => /\ sLast.returned = <<>>
          /\ sLast.raisedType = None
          /\ sLast.backendCalls = 0

\* a one-character prefix, with a limit that would have raised further on
C13_Witness ==
    /\ sLast.op = "get_suggestions" /\ Len(sLast.prefix) = 1
    /\ sLast.limit = Nothing
    /\ sLast.returned = <<>> /\ sLast.raisedType = None

\* C14: for a prefix of at least 2 characters and any limit, get_suggestions
\* asks the backend for min(limit, 20) completions, never more than 20, and
\* returns at most min(limit, 20) entries: the backend is asked, for a number
\* that is min(limit, 20) when a limit is given and at most 20 in any case,
\* and what is returned is no longer than what was asked for.
C14_SuggestionLimit ==
    (sLast.op = "get_suggestions" /\ Len(sLast.prefix) >= 2)
       => /\ sLast.asked # Nothing
          /\ sLast.asked.some <= 20
          /\ sLast.limit # Nothing =>
                sLast.asked = Some(IF sLast.limit.some <= 20 THEN sLast.limit.some
                                   ELSE 20)
          /\ sLast.raisedType = None => Len(sLast.returned) <= sLast.asked.some

(***************************************************************************)
(* Claims about the service and the cluster, checked under SpecCluster.    *)
(***************************************************************************)
\* C15: refresh_index consults the index health first; when the status
\* reported is red it returns False and issues no refresh, and for every other
\* reported status the refresh is issued.
C15_RefreshHealthGuard ==
    sLast.op = "refresh_index"
       => /\ sLast.healthChecks = 1
          /\ sLast.reported = "red" => (sLast.returned = FALSE /\ sLast.refreshes = 0)
          /\ sLast.reported \in {"green", "yellow"} => sLast.refreshes = 1
          /\ sLast.reported = None => sLast.refreshes = 0

C15_Witness ==
    /\ sLast.op = "refresh_index" /\ sLast.reported = "red"
    /\ sLast.returned = FALSE /\ sLast.refreshes = 0

\* C16: when the cluster health is red, index_detection does not attempt the
\* document write and reports failure.
C16_IndexingHealthGuard ==
    (sLast.op = "index_detection" /\ sLast.health = "red")
       => (sLast.saves = 0 /\ sLast.returned = FALSE)

\* C17 as stated: validate_connection makes a create call only when the index
\* does not exist.
C17_Original ==
    (sLast.op = "validate_connection" /\ sLast.creates > 0)
       => sLast.presentAtCreate = "no"

\* C17 amended: validate_connection makes a create call only when
\* index.exists() has answered that the index does not exist, and none when
\* it answered that it exists; no step of validate_connection changes an
\* index that exists, and the index it creates has the schema of
\* get_index_settings.
C17_ConditionalCreate ==
    [][ /\ (sFlip' # sFlip /\ sLast'.op = "validate_connection") =>
              /\ sLast'.creates > 0 => sLast'.existed = "no"
              /\ sLast'.existed = "yes" => sLast'.creates = 0
        /\ (th'[AdminThread] # th[AdminThread] \/ sFlip' # sFlip) =>
              (index' # index =>
                  /\ th[AdminThread].pc = "create"
                  /\ index = Nothing
                  /\ index' = get_index_settings)
      ]_vars

\* an index with a schema of its own went through a successful validation
C17_Witness ==
    /\ sLast.op = "validate_connection" /\ sLast.before = ForeignSchema
    /\ sLast.existed = "yes"
    /\ sLast.returned /\ sLast.creates = 0
    /\ sLast.after = ForeignSchema

(***************************************************************************)
(* Claims about the query builder, checked under SpecQuery.                *)
(***************************************************************************)
\* C18: the built text query is of type best_fields when the text has 3 or
\* fewer whitespace-delimited tokens and of type most_fields when it has more.
C18_QueryTypeSelection ==
    qbLast.op = "build_text_query"
       => qbLast.built.type = (IF qbLast.tokens <= 3 THEN "best_fields" ELSE "most_fields")

\* three tokens, padded and separated by runs of whitespace
C18_Witness ==
    /\ qbLast.op = "build_text_query" /\ qbLast.tokens = 3
    /\ Len(qbLast.query_text) > Len("w ww www") + 2
    /\ qbLast.built.type = "best_fields"

HasClause(filter, name) == \E i \in 1..Len(filter) : filter[i].name = name

\* C19: the built query carries a filter clause for exactly the facets that
\* were supplied: a platform clause iff platforms is supplied, a tag clause iff
\* tags is supplied, and a quality_score >= bound clause iff min_quality_score
\* is supplied (0.0 included).
C19_FilterEmission ==
    qbLast.op = "build_search_query"
       => /\ HasClause(qbLast.filter, "platform_filter") <=> TruthyList(qbLast.platforms)
          /\ HasClause(qbLast.filter, "tags_filter") <=> TruthyList(qbLast.tags)
          /\ HasClause(qbLast.filter, "quality_filter") <=> qbLast.min_quality_score # Nothing
          /\ \A i \in 1..Len(qbLast.filter) :
                qbLast.filter[i].name = "quality_filter"
                   => qbLast.filter[i].value = [gte |-> qbLast.min_quality_score.some]

(***************************************************************************)
(* Claims about concurrent requests, checked under SpecThreads.            *)
(***************************************************************************)
\* C25: the store of a search puts under the key of its query one well-formed
\* entry, the SearchResult this search built with the time of the store, and
\* leaves the entries of all other keys as they are; so when two concurrent
\* searches of the same query have both missed and both stored, the entry of
\* the key is the result of one of the two.
C25_ConcurrentStores ==
    [][ \A t \in SearchThreads :
          (th[t].pc = "store" /\ th'[t].pc = "idle") =>
             LET call == th[t].call
                 key == _generate_cache_key(call.query)
             IN
             /\ call.result # Nothing /\ ~Raised(call.result)
             /\ DOMAIN cache'[key] = {"result", "timestamp"}
             /\ cache'[key].result = call.result
             /\ cache'[key].timestamp = clock
             /\ sLast'.returned = call.result
             /\ \A k \in CacheKeys \ {key} : cache'[k] = cache[k]
             /\ call.raced # Nothing
                   => cache'[key].result \in {call.result, call.raced}
      ]_vars

\* two searches of the same query had both missed; the other one stored its
\* result while this one was under way, this one got a different result and
\* stored it over the other: the entry is the result of this one
C25_Witness ==
    /\ sLast.op = "search" /\ sLast.stored
    /\ sLast.raced # Nothing /\ sLast.raced # sLast.returned
    /\ sLast.replaced = sLast.raced
    /\ cache[_generate_cache_key(sLast.query)].result = sLast.returned

\* C26 as stated: a search that starts after index_detection calls have
\* returned True is never served a cached result whose backend execution
\* started before the save of one of those writes.
C26_Original ==
    (sLast.op = "search" /\ sLast.hit) => sLast.served.seen >= sLast.start

\* C26 amended: such a search is never served a cache entry that was stored
\* before one of those writes cleared the cache.
C26_NoEntryFromBeforeClear ==
    (sLast.op = "search" /\ sLast.hit) => sLast.served.after >= sLast.start

\* a search that started after a write had returned was served the entry of a
\* search whose backend call ran before the save and whose store came after
\* the clear
C26_Witness ==
    /\ sLast.op = "search" /\ sLast.hit
    /\ sLast.start >= 1
    /\ sLast.served.seen < sLast.start
    /\ sLast.served.after = sLast.start

\* the lists x and y (None or a list of distinct elements) hold the same
\* elements, in any order
SameElements(x, y) ==
    IF x = Nothing \/ y = Nothing THEN x = y
    ELSE /\ Len(x.some) = Len(y.some)
         /\ {x.some[i] : i \in 1..Len(x.some)} = {y.some[i] : i \in 1..Len(y.some)}

\* two SearchQuery objects equal but for the order of their filter lists
SameUpToOrder(a, b) ==
    /\ a.query_text = b.query_text
    /\ a.min_quality_score = b.min_quality_score
    /\ a.from_ = b.from_ /\ a.size = b.size
    /\ SameElements(a.platforms, b.platforms)
    /\ SameElements(a.tags, b.tags)

\* C24: two SearchQuery objects that differ only in the order of the elements
\* of their platform list or tag list have the same cache key.
C24_KeyIgnoresListOrder ==
    (qbLast.op = "_generate_cache_key" /\ SameUpToOrder(qbLast.first, qbLast.second))
       => qbLast.keys[1] = qbLast.keys[2]

\* C27: for a validated SearchQuery the pagination of the built query exists,
\* its offset is >= 0 and its size is between 1 and 100.
C27_PaginationBounds ==
    (qbLast.op = "search_pagination" /\ ~qbLast.object.has_paging)
       => /\ ~Raised(qbLast.extra)
          /\ qbLast.extra.from_ >= 0
          /\ qbLast.extra.size >= 1 /\ qbLast.extra.size <= MAX_PAGE_SIZE

====
